---- MODULE Spec2Model ----
(***************************************************************************)
(* Position / Coordinate / Interval arithmetic of omics-coordinate.        *)
(*                                                                         *)
(* The sources hold two revisions of the crate side by side:               *)
(*   - the LowerBound revision (lib.rs, position.rs, position/zero*,       *)
(*     position/one*, interval/zero.rs, interval/one.rs) with the systems  *)
(*     Zero and One and positions `Value::LowerBound | Value::Usize(n)`;   *)
(*   - the Number revision (coordinate.rs, coordinate/*, position/base*,   *)
(*     position/interbase*, interval.rs, interval/base.rs,                 *)
(*     interval/interbase.rs) with the systems Interbase and Base and      *)
(*     positions that are plain numbers.                                   *)
(* Both are modelled; a value carries the system tag of its revision.      *)
(***************************************************************************)
EXTENDS Integers, Sequences, FiniteSets, TLC

VARIABLES coord, ival, call, ret, hm, mutex, threads, returned

vars == <<coord, ival, call, ret, hm, mutex, threads, returned>>

\* the values in a caller's hands, and the contig-name table with its callers
values == <<coord, ival, call, ret>>

corpus == <<hm, mutex, threads, returned>>

-----------------------------------------------------------------------------
(* Bounds *)

\* stands for usize::MAX / Number::MAX: the largest representable number
UsizeMax == 3

Numbers == 0..UsizeMax

Contigs == {"seq0", "seq1"}

Strands == {"Positive", "Negative"}

Systems == {"Zero", "One", "Interbase", "Base"}

-----------------------------------------------------------------------------
(* Option<T> is a set with at most one element; Result<T> is a record *)

None == {}

Some(x) == {x}

Ok(x) == [kind |-> "Ok", err |-> "", val |-> {x}]

OkOpt(o) == [kind |-> "Ok", err |-> "", val |-> o]

Err(e) == [kind |-> "Err", err |-> e, val |-> {}]

Panic(e) == [kind |-> "Panic", err |-> e, val |-> {}]

Unwrap(o) == CHOOSE x \in o : TRUE

\* usize::checked_add
usize_checked_add(a, b) == IF a + b > UsizeMax THEN None ELSE Some(a + b)

\* usize::checked_sub
usize_checked_sub(a, b) == IF b > a THEN None ELSE Some(a - b)

-----------------------------------------------------------------------------
(* position/value.rs: Value *)

LowerBound == [tag |-> "LowerBound", n |-> 0]

Usize(n) == [tag |-> "Usize", n |-> n]

Values == {LowerBound} \cup {Usize(n) : n \in Numbers}

\* derive(Ord) on Value: LowerBound < Usize(0) < Usize(1) < ...
ValueLT(a, b) ==
    \/ a.tag = "LowerBound" /\ b.tag = "Usize"
    \/ a.tag = "Usize" /\ b.tag = "Usize" /\ a.n < b.n

-----------------------------------------------------------------------------
(* Positions *)

\* LowerBound revision: Position { system, inner: Value }
OldPosition(s, v) == [system |-> s, inner |-> v]

\* Number revision: Position { system, value: Number }
NewPosition(s, n) == [system |-> s, value |-> n]

IsOld(s) == s \in {"Zero", "One"}

\* position/zero.rs: Position::try_new
zero_try_new(value) == Ok(OldPosition("Zero", value))

\* position/zero.rs: Position::lower_bound
zero_lower_bound == OldPosition("Zero", LowerBound)

\* mutant: 0 is accepted
one_try_new_accept_zero(value) ==
    IF value = LowerBound THEN Err("IncompatibleValue")
    ELSE Ok(OldPosition("One", value))

\* position/one.rs: Position::try_new
one_try_new(value) ==
    IF value = LowerBound THEN Err("IncompatibleValue")
    ELSE IF value = Usize(0) THEN Err("IncompatibleValue")
    ELSE Ok(OldPosition("One", value))

\* position/interbase.rs: Position::new
interbase_new(value) == NewPosition("Interbase", value)

\* position/base.rs: Position::try_new
base_try_new(value) ==
    IF value = 0 THEN Err("IncompatibleValue")
    ELSE Ok(NewPosition("Base", value))

\* mutant: LowerBound is counted as 0 when something is added to it
zero_checked_add_from_zero(lhs, rhs) ==
    IF lhs.tag = "Usize"
    THEN {OldPosition("Zero", Usize(n)) : n \in usize_checked_add(lhs.n, rhs)}
    ELSE IF rhs = 0 THEN Some(zero_lower_bound)
    ELSE Some(OldPosition("Zero", Usize(rhs)))

\* position/zero/addition.rs: checked_add
zero_checked_add(lhs, rhs) ==
    IF lhs.tag = "Usize"
    THEN {OldPosition("Zero", Usize(n)) : n \in usize_checked_add(lhs.n, rhs)}
    ELSE IF rhs = 0 THEN Some(zero_lower_bound)
    ELSE {OldPosition("Zero", Usize(n)) : n \in usize_checked_sub(rhs, 1)}

\* mutant: plain checked subtraction that never lands on LowerBound
zero_checked_sub_plain(lhs, rhs) ==
    IF lhs.tag = "Usize"
    THEN {OldPosition("Zero", Usize(n)) : n \in usize_checked_sub(lhs.n, rhs)}
    ELSE IF rhs = 0 THEN Some(zero_lower_bound)
    ELSE None

\* position/zero/subtraction.rs: checked_sub
zero_checked_sub(lhs, rhs) ==
    IF lhs.tag = "Usize"
    THEN IF lhs.n = UsizeMax
         THEN {OldPosition("Zero", Usize(n)) : n \in usize_checked_sub(lhs.n, rhs)}
         ELSE LET lhs_plus_one == lhs.n + 1
                  d == usize_checked_sub(lhs_plus_one, rhs)
              IN  IF d = Some(0) THEN Some(OldPosition("Zero", LowerBound))
                  ELSE {OldPosition("Zero", Usize(n - 1)) : n \in d}
    ELSE IF rhs = 0 THEN Some(zero_lower_bound)
    ELSE None

\* the tail of the 1-based checked_add / checked_sub:
\* result.map(Position::try_new).transpose().or_else(..).unwrap()
one_from_value(result) ==
    IF result = None THEN None
    ELSE LET r == one_try_new(Unwrap(result))
         IN  IF r.kind = "Ok" THEN r.val ELSE None

\* position/one/addition.rs: checked_add
one_checked_add(lhs, rhs) ==
    one_from_value(IF lhs.tag = "Usize"
                   THEN {Usize(n) : n \in usize_checked_add(lhs.n, rhs)}
                   ELSE Some(Usize(rhs)))

\* mutant: the result is not validated, so n - n is the position 0
one_checked_sub_unvalidated(lhs, rhs) ==
    IF lhs.tag = "Usize"
    THEN {OldPosition("One", Usize(n)) : n \in usize_checked_sub(lhs.n, rhs)}
    ELSE None

\* position/one/subtraction.rs: checked_sub
one_checked_sub(lhs, rhs) ==
    one_from_value(IF lhs.tag = "Usize"
                   THEN {Usize(n) : n \in usize_checked_sub(lhs.n, rhs)}
                   ELSE None)

\* position/interbase/addition.rs: checked_add
interbase_checked_add(value, rhs) ==
    {interbase_new(n) : n \in usize_checked_add(value, rhs)}

\* position/interbase/subtraction.rs: checked_sub
interbase_checked_sub(value, rhs) ==
    {interbase_new(n) : n \in usize_checked_sub(value, rhs)}

\* Result::ok() over Position::try_new of an optional number
base_from_number(o) ==
    IF o = None THEN None
    ELSE LET r == base_try_new(Unwrap(o)) IN IF r.kind = "Ok" THEN r.val ELSE None

\* position/base/addition.rs: checked_add
base_checked_add(value, rhs) == base_from_number(usize_checked_add(value, rhs))

\* position/base/subtraction.rs: checked_sub
base_checked_sub(value, rhs) == base_from_number(usize_checked_sub(value, rhs))

\* position.rs: Position::try_new, dispatched on the system
position_try_new(s, value) ==
    CASE s = "Zero" -> zero_try_new(value)
      [] s = "One" -> one_try_new(value)
      [] s = "Interbase" -> Ok(interbase_new(value.n))
      [] s = "Base" -> base_try_new(value.n)

\* position.rs: Position::checked_add, dispatched on the system
checked_add(p, rhs) ==
    CASE p.system = "Zero" -> zero_checked_add(p.inner, rhs)
      [] p.system = "One" -> one_checked_add(p.inner, rhs)
      [] p.system = "Interbase" -> interbase_checked_add(p.value, rhs)
      [] p.system = "Base" -> base_checked_add(p.value, rhs)

\* position.rs: Position::checked_sub, dispatched on the system
checked_sub(p, rhs) ==
    CASE p.system = "Zero" -> zero_checked_sub(p.inner, rhs)
      [] p.system = "One" -> one_checked_sub(p.inner, rhs)
      [] p.system = "Interbase" -> interbase_checked_sub(p.value, rhs)
      [] p.system = "Base" -> base_checked_sub(p.value, rhs)

\* mutant: the distance to LowerBound misses the + 1
distance_unchecked_no_plus_one(self, other) ==
    LET a == self.inner
        b == other.inner
    IN  CASE a.tag = "Usize" /\ b.tag = "Usize" ->
               IF a.n > b.n THEN usize_checked_sub(a.n, b.n)
               ELSE usize_checked_sub(b.n, a.n)
          [] a.tag = "Usize" /\ b.tag = "LowerBound" -> Some(a.n)
          [] a.tag = "LowerBound" /\ b.tag = "Usize" -> Some(b.n)
          [] OTHER -> Some(0)

\* position.rs: Position::distance_unchecked (LowerBound revision)
distance_unchecked(self, other) ==
    LET a == self.inner
        b == other.inner
    IN  CASE a.tag = "Usize" /\ b.tag = "Usize" ->
               IF a.n > b.n THEN usize_checked_sub(a.n, b.n)
               ELSE usize_checked_sub(b.n, a.n)
          [] a.tag = "Usize" /\ b.tag = "LowerBound" -> usize_checked_add(a.n, 1)
          [] a.tag = "LowerBound" /\ b.tag = "Usize" -> usize_checked_add(b.n, 1)
          [] OTHER -> Some(0)

\* derive(Ord) on Position (same system on both sides)
PositionLT(p, q) ==
    IF IsOld(p.system) THEN ValueLT(p.inner, q.inner) ELSE p.value < q.value

PositionGT(p, q) == PositionLT(q, p)

\* every position a constructor of the system returns
ValidPositions(s) ==
    CASE s = "Zero" -> {OldPosition(s, v) : v \in Values}
      [] s = "One" -> {OldPosition(s, Usize(n)) : n \in 1..UsizeMax}
      [] s = "Interbase" -> {NewPosition(s, n) : n \in Numbers}
      [] s = "Base" -> {NewPosition(s, n) : n \in 1..UsizeMax}

AllValidPositions == UNION {ValidPositions(s) : s \in Systems}

\* the raw values a caller can hand to Position::try_new of a system
RawValues(s) == IF IsOld(s) THEN Values ELSE {Usize(n) : n \in Numbers}

-----------------------------------------------------------------------------
(* Coordinates: Coordinate { system, contig, strand, position } *)

Coordinate(s, contig, strand, position) ==
    [system |-> s, contig |-> contig, strand |-> strand, position |-> position]

\* strand.rs: Strand::complement
complement(strand) == IF strand = "Positive" THEN "Negative" ELSE "Positive"

\* mutant: LowerBound is accepted on every strand
lib_try_new_any_strand(s, contig, strand, position) ==
    Ok(Coordinate(s, contig, strand, position))

\* lib.rs: Coordinate::try_new (LowerBound revision)
lib_try_new(s, contig, strand, position) ==
    IF position.inner = LowerBound /\ strand # "Negative"
    THEN Err("LowerBoundOnNonNegativeStrand")
    ELSE Ok(Coordinate(s, contig, strand, position))

\* zero.rs: Coordinate::lower_bound
lib_lower_bound(contig) == Unwrap(lib_try_new("Zero", contig, "Negative", zero_lower_bound).val)

\* Option<Position>.map(|p| Self::try_new(contig, strand, p)).transpose()
lib_map_try_new(self, position) ==
    IF position = None THEN OkOpt(None)
    ELSE lib_try_new(self.system, self.contig, self.strand, Unwrap(position))

\* lib.rs: Coordinate::move_forward
lib_move_forward(self, magnitude) ==
    IF magnitude = 0 THEN OkOpt(Some(self))
    ELSE LET position == IF self.strand = "Positive"
                         THEN checked_add(self.position, magnitude)
                         ELSE checked_sub(self.position, magnitude)
             result == lib_map_try_new(self, position)
         IN  IF result.kind = "Err" /\ result.err = "LowerBoundOnNonNegativeStrand"
             THEN Panic("unreachable")
             ELSE result

\* mutant: the LowerBound-on-positive-strand error is passed on to the caller
lib_move_backward_err(self, magnitude) ==
    IF magnitude = 0 THEN OkOpt(Some(self))
    ELSE lib_map_try_new(self, IF self.strand = "Positive"
                               THEN checked_sub(self.position, magnitude)
                               ELSE checked_add(self.position, magnitude))

\* lib.rs: Coordinate::move_backward
lib_move_backward(self, magnitude) ==
    IF magnitude = 0 THEN OkOpt(Some(self))
    ELSE LET position == IF self.strand = "Positive"
                         THEN checked_sub(self.position, magnitude)
                         ELSE checked_add(self.position, magnitude)
             result == lib_map_try_new(self, position)
         IN  IF result.kind = "Err" /\ result.err = "LowerBoundOnNonNegativeStrand"
             THEN OkOpt(None)
             ELSE result

\* mutant: the strand is not complemented
lib_swap_strand_keep_strand(self) ==
    lib_try_new(self.system, self.contig, self.strand, self.position)

\* lib.rs: Coordinate::swap_strand
lib_swap_strand(self) ==
    lib_try_new(self.system, self.contig, complement(self.strand), self.position)

\* coordinate.rs: Coordinate::new (Number revision)
coordinate_new(s, contig, strand, position) == Coordinate(s, contig, strand, position)

\* coordinate/interbase.rs, coordinate/base.rs: Coordinate::try_new
coordinate_try_new(s, contig, strand, number) ==
    IF s = "Base"
    THEN LET r == base_try_new(number)
         IN  IF r.kind = "Ok" THEN Ok(Coordinate(s, contig, strand, Unwrap(r.val)))
             ELSE Err("Position")
    ELSE Ok(Coordinate(s, contig, strand, interbase_new(number)))

\* mutant: the position grows on both strands
coordinate_move_forward_strand_blind(self, magnitude) ==
    IF magnitude = 0 THEN Some(self)
    ELSE {coordinate_new(self.system, self.contig, self.strand, p) :
            p \in checked_add(self.position, magnitude)}

\* coordinate.rs: Coordinate::move_forward
coordinate_move_forward(self, magnitude) ==
    IF magnitude = 0 THEN Some(self)
    ELSE {coordinate_new(self.system, self.contig, self.strand, p) :
            p \in IF self.strand = "Positive"
                  THEN checked_add(self.position, magnitude)
                  ELSE checked_sub(self.position, magnitude)}

\* coordinate.rs: Coordinate::move_backward
coordinate_move_backward(self, magnitude) ==
    IF magnitude = 0 THEN Some(self)
    ELSE {coordinate_new(self.system, self.contig, self.strand, p) :
            p \in IF self.strand = "Positive"
                  THEN checked_sub(self.position, magnitude)
                  ELSE checked_add(self.position, magnitude)}

\* coordinate.rs: Coordinate::swap_strand
coordinate_swap_strand(self) ==
    coordinate_new(self.system, self.contig, complement(self.strand), self.position)

\* coordinate/interbase.rs: Coordinate::nudge_forward
interbase_nudge_forward(self) ==
    LET position == IF self.strand = "Positive"
                    THEN base_from_number(usize_checked_add(self.position.value, 1))
                    ELSE base_from_number(Some(self.position.value))
    IN  {coordinate_new("Base", self.contig, self.strand, p) : p \in position}

\* coordinate/interbase.rs: Coordinate::nudge_backward
interbase_nudge_backward(self) ==
    LET position == IF self.strand = "Positive"
                    THEN base_from_number(Some(self.position.value))
                    ELSE base_from_number(usize_checked_add(self.position.value, 1))
    IN  {coordinate_new("Base", self.contig, self.strand, p) : p \in position}

\* coordinate/base.rs: Coordinate::nudge_forward
base_nudge_forward(self) ==
    LET position == IF self.strand = "Positive"
                    THEN Some(interbase_new(self.position.value))
                    ELSE {interbase_new(n) : n \in usize_checked_sub(self.position.value, 1)}
    IN  {coordinate_new("Interbase", self.contig, self.strand, p) : p \in position}

\* mutant: the previous interbase position is taken on both strands
base_nudge_backward_strand_blind(self) ==
    LET position == {interbase_new(n) : n \in usize_checked_sub(self.position.value, 1)}
    IN  {coordinate_new("Interbase", self.contig, self.strand, p) : p \in position}

\* coordinate/base.rs: Coordinate::nudge_backward
base_nudge_backward(self) ==
    LET position == IF self.strand = "Positive"
                    THEN {interbase_new(n) : n \in usize_checked_sub(self.position.value, 1)}
                    ELSE Some(interbase_new(self.position.value))
    IN  {coordinate_new("Interbase", self.contig, self.strand, p) : p \in position}

\* Coordinate::try_new of the value's own revision
system_try_new(s, contig, strand, position) ==
    IF IsOld(s) THEN lib_try_new(s, contig, strand, position)
    ELSE coordinate_try_new(s, contig, strand, position.value)

\* every coordinate a constructor of the system returns
ValidCoordinates(s) ==
    {Coordinate(s, c, q, p) : c \in Contigs, q \in Strands, p \in ValidPositions(s)}
        \ {Coordinate(s, c, "Positive", OldPosition(s, LowerBound)) : c \in Contigs}

AllValidCoordinates == UNION {ValidCoordinates(s) : s \in Systems}

-----------------------------------------------------------------------------
(* Intervals: Interval { start, end } *)

Interval(start, end) == [start |-> start, end |-> end]

\* mutant: the negative strand is not checked for ordering
interval_try_new_no_negative_check(start, end) ==
    IF start.contig # end.contig THEN Err("MismatchedContigs")
    ELSE IF start.strand # end.strand THEN Err("MismatchedStrands")
    ELSE IF start.strand = "Positive" /\ PositionLT(end.position, start.position)
    THEN Err("NegativelySized")
    ELSE Ok([start |-> start, end |-> end])

\* interval.rs: Interval::try_new
interval_try_new(start, end) ==
    IF start.contig # end.contig THEN Err("MismatchedContigs")
    ELSE IF start.strand # end.strand THEN Err("MismatchedStrands")
    ELSE IF start.strand = "Positive" /\ PositionGT(start.position, end.position)
    THEN Err("NegativelySized")
    ELSE IF start.strand = "Negative" /\ PositionGT(end.position, start.position)
    THEN Err("NegativelySized")
    ELSE Ok(Interval(start, end))

\* interval::try_new, the free function interval/zero.rs and interval/one.rs
\* delegate to. Its file is not among the sources; the checks are those the
\* specification gives for interval construction (contig, strand, order).
generic_interval_try_new(start, end) ==
    IF start.contig # end.contig THEN Err("MismatchedContigs")
    ELSE IF start.strand # end.strand THEN Err("MismatchedStrands")
    ELSE IF start.strand = "Positive" /\ PositionGT(start.position, end.position)
    THEN Err("NegativelySized")
    ELSE IF start.strand = "Negative" /\ PositionGT(end.position, start.position)
    THEN Err("NegativelySized")
    ELSE Ok(Interval(start, end))

\* mutant: the zero-sized check is missing
zero_interval_try_new_allow_empty(start, end) == generic_interval_try_new(start, end)

\* interval/zero.rs: Interval::try_new
zero_interval_try_new(start, end) ==
    LET result == generic_interval_try_new(start, end)
    IN  IF result.kind # "Ok" THEN result
        ELSE IF Unwrap(result.val).start = Unwrap(result.val).end
        THEN Err("ZeroSizedInterval")
        ELSE result

\* interval/one.rs: Interval::try_new
one_interval_try_new(start, end) == generic_interval_try_new(start, end)

\* Interval::try_new of the value's own revision and system
system_interval_try_new(start, end) ==
    CASE start.system = "Zero" -> zero_interval_try_new(start, end)
      [] start.system = "One" -> one_interval_try_new(start, end)
      [] OTHER -> interval_try_new(start, end)

\* mutant: the end bound is excluded
interval_contains_coordinate_half_open(self, coordinate) ==
    IF self.start.contig # coordinate.contig THEN FALSE
    ELSE IF self.start.strand # coordinate.strand THEN FALSE
    ELSE IF self.start.strand = "Positive"
    THEN /\ self.start.position.value <= coordinate.position.value
         /\ self.end.position.value > coordinate.position.value
    ELSE /\ self.start.position.value >= coordinate.position.value
         /\ self.end.position.value < coordinate.position.value

\* interval.rs: Interval::contains_coordinate
interval_contains_coordinate(self, coordinate) ==
    IF self.start.contig # coordinate.contig THEN FALSE
    ELSE IF self.start.strand # coordinate.strand THEN FALSE
    ELSE IF self.start.strand = "Positive"
    THEN /\ self.start.position.value <= coordinate.position.value
         /\ self.end.position.value >= coordinate.position.value
    ELSE /\ self.start.position.value >= coordinate.position.value
         /\ self.end.position.value <= coordinate.position.value

\* mutant: the start bound of the positive strand is included
interbase_contains_entity_inclusive(self, coordinate) ==
    IF self.start.contig # coordinate.contig THEN FALSE
    ELSE IF self.start.strand # coordinate.strand THEN FALSE
    ELSE IF self.start.strand = "Positive"
    THEN /\ self.start.position.value <= coordinate.position.value
         /\ self.end.position.value >= coordinate.position.value
    ELSE /\ self.start.position.value >= coordinate.position.value
         /\ self.end.position.value < coordinate.position.value

\* interval/interbase.rs: Interval::contains_entity (coordinate is a base coordinate)
interbase_contains_entity(self, coordinate) ==
    IF self.start.contig # coordinate.contig THEN FALSE
    ELSE IF self.start.strand # coordinate.strand THEN FALSE
    ELSE IF self.start.strand = "Positive"
    THEN /\ self.start.position.value < coordinate.position.value
         /\ self.end.position.value >= coordinate.position.value
    ELSE /\ self.start.position.value >= coordinate.position.value
         /\ self.end.position.value < coordinate.position.value

\* interval/base.rs: Interval::contains_entity
base_contains_entity(self, coordinate) == interval_contains_coordinate(self, coordinate)

\* Position::distance_unchecked of the Number revision (Interbase, Base): its
\* file is not among the sources; the absolute difference of the two numbers,
\* as the specification and the tests position/interbase.rs:128-141 and
\* position/base.rs:155-168 give it.
number_distance_unchecked(self, other) ==
    IF self.value > other.value THEN self.value - other.value
    ELSE other.value - self.value

\* interval/interbase.rs: Interval::count_entities
interbase_count_entities(self) ==
    Ok(number_distance_unchecked(self.start.position, self.end.position))

\* mutant: one is not added to the distance
base_count_entities_no_plus_one(self) ==
    {Ok(number_distance_unchecked(self.start.position, self.end.position))}

\* interval/base.rs: Interval::count_entities; `+ 1` on Number aborts on
\* overflow in a checked build and wraps in an unchecked one
base_count_entities(self) ==
    LET distance == number_distance_unchecked(self.start.position, self.end.position)
    IN  IF distance + 1 > UsizeMax
        THEN {Panic("overflow"), Ok((distance + 1) % (UsizeMax + 1))}
        ELSE {Ok(distance + 1)}

\* interval/zero.rs: Interval::len
zero_interval_len(self) ==
    LET distance == distance_unchecked(self.start.position, self.end.position)
    IN  IF distance = None THEN Panic("unwrap") ELSE Ok(Unwrap(distance))

\* mutant: one is not added to the distance
one_interval_len_no_plus_one(self) ==
    LET distance == distance_unchecked(self.start.position, self.end.position)
    IN  IF distance = None THEN Panic("unwrap") ELSE Ok(Unwrap(distance))

\* interval/one.rs: Interval::len
one_interval_len(self) ==
    LET distance == distance_unchecked(self.start.position, self.end.position)
        length == IF distance = None THEN None
                  ELSE usize_checked_add(Unwrap(distance), 1)
    IN  IF length = None THEN Panic("unwrap") ELSE Ok(Unwrap(length))

\* std::cmp::max / std::cmp::min on positions
position_max(p, q) == IF PositionGT(p, q) THEN p ELSE q

position_min(p, q) == IF PositionGT(p, q) THEN q ELSE p

\* mutant: the strands are compared before the contigs
interval_clamp_strand_first(self, interval) ==
    IF self.start.strand # interval.start.strand THEN Err("ClampMismatchedStrand")
    ELSE IF self.start.contig # interval.start.contig THEN Err("ClampMismatchedContigs")
    ELSE LET new_start == IF self.start.strand = "Positive"
                          THEN position_max(self.start.position, interval.start.position)
                          ELSE position_min(self.start.position, interval.start.position)
             new_end == IF self.start.strand = "Positive"
                        THEN position_min(self.end.position, interval.end.position)
                        ELSE position_max(self.end.position, interval.end.position)
             start == coordinate_new(self.start.system, self.start.contig,
                                     self.start.strand, new_start)
             end == coordinate_new(self.end.system, self.end.contig,
                                   self.end.strand, new_end)
             result == interval_try_new(start, end)
         IN  IF result.kind = "Ok" THEN result ELSE Panic("unwrap")

\* interval.rs: Interval::clamp
interval_clamp(self, interval) ==
    IF self.start.contig # interval.start.contig THEN Err("ClampMismatchedContigs")
    ELSE IF self.start.strand # interval.start.strand THEN Err("ClampMismatchedStrand")
    ELSE LET new_start == IF self.start.strand = "Positive"
                          THEN position_max(self.start.position, interval.start.position)
                          ELSE position_min(self.start.position, interval.start.position)
             new_end == IF self.start.strand = "Positive"
                        THEN position_min(self.end.position, interval.end.position)
                        ELSE position_max(self.end.position, interval.end.position)
             start == coordinate_new(self.start.system, self.start.contig,
                                     self.start.strand, new_start)
             end == coordinate_new(self.end.system, self.end.contig,
                                   self.end.strand, new_end)
             result == interval_try_new(start, end)
         IN  IF result.kind = "Ok" THEN result ELSE Panic("unwrap")

\* mutant: the containment check is skipped
interval_coordinate_offset_unchecked(self, coordinate) ==
    Some(number_distance_unchecked(coordinate.position, self.start.position))

\* interval.rs: Interval::coordinate_offset
interval_coordinate_offset(self, coordinate) ==
    IF ~interval_contains_coordinate(self, coordinate) THEN None
    ELSE Some(number_distance_unchecked(coordinate.position, self.start.position))

\* mutant: the moved coordinate is returned without the containment check
interval_coordinate_at_offset_unbounded(self, offset) ==
    coordinate_move_forward(self.start, offset)

\* interval.rs: Interval::coordinate_at_offset
interval_coordinate_at_offset(self, offset) ==
    {c \in coordinate_move_forward(self.start, offset) :
        interval_contains_coordinate(self, c)}

\* mutant: the strands are swapped but start and end keep their roles
interval_reverse_complement_same_roles(self) ==
    LET result == interval_try_new(coordinate_swap_strand(self.start),
                                   coordinate_swap_strand(self.end))
    IN  IF result.kind = "Ok" THEN result ELSE Panic("unwrap")

\* interval.rs: Interval::reverse_complement
interval_reverse_complement(self) ==
    LET result == interval_try_new(coordinate_swap_strand(self.end),
                                   coordinate_swap_strand(self.start))
    IN  IF result.kind = "Ok" THEN result ELSE Panic("unwrap")

\* mutant: a LowerBound end is swapped and moved like any other end
zero_interval_complement_no_special_case(self) ==
    LET current_start == self.start
        current_end == self.end
        swapped_end == lib_swap_strand(current_end)
        moved_end == lib_move_forward(Unwrap(swapped_end.val), 1)
        swapped_start == lib_swap_strand(current_start)
        moved_start == lib_move_forward(Unwrap(swapped_start.val), 1)
        new_start == IF swapped_end.kind # "Ok" THEN swapped_end ELSE moved_end
    IN  IF new_start.kind # "Ok" THEN new_start
        ELSE IF new_start.val = None THEN OkOpt(None)
        ELSE IF swapped_start.kind # "Ok" THEN swapped_start
        ELSE IF moved_start.kind # "Ok" THEN moved_start
        ELSE IF moved_start.val = None THEN OkOpt(None)
        ELSE zero_interval_try_new(Unwrap(new_start.val), Unwrap(moved_start.val))

\* interval/zero.rs: Interval::complement
zero_interval_complement(self) ==
    LET current_start == self.start
        current_end == self.end
        swapped_end == lib_swap_strand(current_end)
        moved_end == lib_move_forward(Unwrap(swapped_end.val), 1)
        swapped_start == lib_swap_strand(current_start)
        moved_start == lib_move_forward(Unwrap(swapped_start.val), 1)
        new_start ==
            IF current_end.position.inner = LowerBound
            THEN LET r == lib_try_new("Zero", current_end.contig, "Positive",
                                      OldPosition("Zero", Usize(0)))
                 IN  IF r.kind = "Ok" THEN r ELSE Panic("unwrap")
            ELSE IF swapped_end.kind # "Ok" THEN swapped_end
            ELSE moved_end
    IN  IF new_start.kind # "Ok" THEN new_start
        ELSE IF new_start.val = None THEN OkOpt(None)
        ELSE IF swapped_start.kind # "Ok" THEN swapped_start
        ELSE IF moved_start.kind # "Ok" THEN moved_start
        ELSE IF moved_start.val = None THEN OkOpt(None)
        ELSE zero_interval_try_new(Unwrap(new_start.val), Unwrap(moved_start.val))

\* interval/one.rs: Interval::complement
one_interval_complement(self) ==
    LET end == lib_swap_strand(self.end)
        start == lib_swap_strand(self.start)
    IN  IF end.kind # "Ok" THEN end
        ELSE IF start.kind # "Ok" THEN start
        ELSE one_interval_try_new(Unwrap(end.val), Unwrap(start.val))

\* mutant: the end bound is included, as in interval/one.rs
zero_interval_contains_closed(self, coordinate) ==
    IF self.start.contig # coordinate.contig THEN FALSE
    ELSE IF self.start.strand # coordinate.strand THEN FALSE
    ELSE IF self.start.strand = "Positive"
    THEN IF PositionGT(self.start.position, coordinate.position) THEN FALSE
         ELSE IF PositionLT(self.end.position, coordinate.position) THEN FALSE
         ELSE TRUE
    ELSE IF PositionLT(self.start.position, coordinate.position) THEN FALSE
         ELSE IF PositionGT(self.end.position, coordinate.position) THEN FALSE
         ELSE TRUE

\* interval/zero.rs: Interval::contains (start inclusive, end exclusive)
zero_interval_contains(self, coordinate) ==
    IF self.start.contig # coordinate.contig THEN FALSE
    ELSE IF self.start.strand # coordinate.strand THEN FALSE
    ELSE IF self.start.strand = "Positive"
    THEN IF PositionGT(self.start.position, coordinate.position) THEN FALSE
         ELSE IF ~PositionGT(self.end.position, coordinate.position) THEN FALSE
         ELSE TRUE
    ELSE IF PositionLT(self.start.position, coordinate.position) THEN FALSE
         ELSE IF ~PositionLT(self.end.position, coordinate.position) THEN FALSE
         ELSE TRUE

\* interval/one.rs: Interval::contains (both bounds inclusive)
one_interval_contains(self, coordinate) ==
    IF self.start.contig # coordinate.contig THEN FALSE
    ELSE IF self.start.strand # coordinate.strand THEN FALSE
    ELSE IF self.start.strand = "Positive"
    THEN IF PositionGT(self.start.position, coordinate.position) THEN FALSE
         ELSE IF PositionLT(self.end.position, coordinate.position) THEN FALSE
         ELSE TRUE
    ELSE IF PositionLT(self.start.position, coordinate.position) THEN FALSE
         ELSE IF PositionGT(self.end.position, coordinate.position) THEN FALSE
         ELSE TRUE

\* interval::r#trait::Interval::contains of the interval's system
lib_interval_contains(interval, coordinate) ==
    IF interval.start.system = "Zero" THEN zero_interval_contains(interval, coordinate)
    ELSE one_interval_contains(interval, coordinate)

\* mutant: the bounds check is skipped
lib_move_forward_unchecked_bounds(self, magnitude, interval) ==
    lib_move_forward(self, magnitude)

\* lib.rs: Coordinate::move_forward_checked_bounds
lib_move_forward_checked_bounds(self, magnitude, interval) ==
    LET moved == lib_move_forward(self, magnitude)
    IN  IF moved.kind # "Ok" THEN moved
        ELSE OkOpt({value \in moved.val : lib_interval_contains(interval, value)})

\* lib.rs: Coordinate::move_backward_checked_bounds
lib_move_backward_checked_bounds(self, magnitude, interval) ==
    LET moved == lib_move_backward(self, magnitude)
    IN  IF moved.kind # "Ok" THEN moved
        ELSE OkOpt({value \in moved.val : lib_interval_contains(interval, value)})

\* every interval the constructor of its system returns
ValidIntervals ==
    UNION {UNION {system_interval_try_new(a, b).val : a, b \in ValidCoordinates(s)} :
             s \in Systems}

-----------------------------------------------------------------------------
(* Text: Display and FromStr.  A string is a sequence of one-character      *)
(* strings, so that splitting on a separator is computed, not assumed.      *)

\* omics-core/src/lib.rs: VARIANT_SEPARATOR
VARIANT_SEPARATOR == ":"

\* position/value.rs: LOWER_BOUND_CHAR
LOWER_BOUND_CHAR == "["

Digits == <<"0", "1", "2", "3", "4", "5", "6", "7", "8", "9">>

DigitChars == {Digits[i] : i \in 1..Len(Digits)}

DigitValue(ch) == (CHOOSE i \in 1..Len(Digits) : Digits[i] = ch) - 1

RECURSIVE split_at(_, _, _, _)
split_at(s, sep, current, parts) ==
    IF s = <<>> THEN Append(parts, current)
    ELSE IF Head(s) = sep
         THEN split_at(Tail(s), sep, <<>>, Append(parts, current))
         ELSE split_at(Tail(s), sep, Append(current, Head(s)), parts)

\* str::split on a one-character separator, collected
split(s, sep) == split_at(s, sep, <<>>, <<>>)

RECURSIVE usize_to_string(_)
\* Display for usize: decimal digits, no sign, no leading zero
usize_to_string(n) ==
    IF n < Len(Digits) THEN <<Digits[n + 1]>>
    ELSE Append(usize_to_string(n \div Len(Digits)), Digits[(n % Len(Digits)) + 1])

RECURSIVE digits_value(_, _)
digits_value(s, acc) ==
    IF s = <<>> THEN acc
    ELSE digits_value(Tail(s), acc * Len(Digits) + DigitValue(Head(s)))

\* str::parse::<usize>: an optional "+", then one or more digits, no overflow
usize_from_str(s) ==
    LET body == IF s # <<>> /\ Head(s) = "+" THEN Tail(s) ELSE s
    IN  IF body = <<>> THEN None
        ELSE IF \E i \in 1..Len(body) : body[i] \notin DigitChars THEN None
        ELSE IF digits_value(body, 0) > UsizeMax THEN None
        ELSE Some(digits_value(body, 0))

\* contig.rs: Display for Contig
contig_display(contig) == contig

\* contig.rs: Contig::try_new / FromStr
contig_try_new(s) == IF s = <<>> THEN Err("Empty") ELSE Ok(s)

\* strand.rs: Display for Strand
strand_display(strand) == IF strand = "Positive" THEN <<"+">> ELSE <<"-">>

\* strand.rs: Strand::try_new / FromStr
strand_try_new(s) ==
    IF s = <<>> THEN Err("Empty")
    ELSE IF s = <<"+">> THEN Ok("Positive")
    ELSE IF s = <<"-">> THEN Ok("Negative")
    ELSE Err("InvalidValue")

\* position/value.rs: Display for Value
value_display(value) ==
    IF value = LowerBound THEN <<LOWER_BOUND_CHAR>> ELSE usize_to_string(value.n)

\* position/value.rs: FromStr for Value
value_from_str(s) ==
    IF s = <<LOWER_BOUND_CHAR>> THEN Ok(LowerBound)
    ELSE LET n == usize_from_str(s)
         IN  IF n = None THEN Err("ParseIntError") ELSE Ok(Usize(Unwrap(n)))

\* position.rs: Display for Position (LowerBound revision)
lib_position_display(position) == value_display(position.inner)

\* position/zero.rs, position/one.rs: FromStr for Position
lib_position_from_str(s, text) ==
    LET value == value_from_str(text)
    IN  IF value.kind # "Ok" THEN Err("ParseError")
        ELSE position_try_new(s, Unwrap(value.val))

\* Display for Position (Number revision): the number in decimal
number_position_display(position) == usize_to_string(position.value)

\* position/interbase.rs, position/base.rs: FromStr for Position
number_position_from_str(s, text) ==
    LET n == usize_from_str(text)
    IN  IF n = None THEN Err("Parse")
        ELSE position_try_new(s, Usize(Unwrap(n)))

\* lib.rs: Display for Coordinate (LowerBound revision)
lib_coordinate_display(self) ==
    contig_display(self.contig) \o <<":">> \o strand_display(self.strand)
        \o <<":">> \o lib_position_display(self.position)

\* lib.rs: FromStr for Coordinate (LowerBound revision)
lib_coordinate_from_str(s, text) ==
    LET parts == split(text, VARIANT_SEPARATOR)
    IN  IF Len(parts) # 3 THEN Err("InvalidFormat")
        ELSE LET contig == contig_try_new(parts[1])
                 strand == strand_try_new(parts[2])
                 position == lib_position_from_str(s, parts[3])
             IN  IF contig.kind # "Ok" THEN Err("InvalidContig")
                 ELSE IF strand.kind # "Ok" THEN Err("InvalidStrand")
                 ELSE IF position.kind # "Ok" THEN Err("InvalidPosition")
                 ELSE lib_try_new(s, Unwrap(contig.val), Unwrap(strand.val),
                                  Unwrap(position.val))

\* coordinate.rs: Display for Coordinate (Number revision)
coordinate_display(self) ==
    contig_display(self.contig) \o <<":">> \o strand_display(self.strand)
        \o <<":">> \o number_position_display(self.position)

\* coordinate.rs: FromStr for Coordinate (Number revision)
coordinate_from_str(s, text) ==
    LET parts == split(text, VARIANT_SEPARATOR)
    IN  IF Len(parts) # 3 THEN Err("Format")
        ELSE LET contig == contig_try_new(parts[1])
                 strand == strand_try_new(parts[2])
                 position == number_position_from_str(s, parts[3])
             IN  IF contig.kind # "Ok" THEN Err("Format")
                 ELSE IF strand.kind # "Ok" THEN Err("Strand")
                 ELSE IF position.kind # "Ok" THEN Err("Position")
                 ELSE Ok(coordinate_new(s, Unwrap(contig.val), Unwrap(strand.val),
                                        Unwrap(position.val)))

\* Display / FromStr for Coordinate, dispatched on the system
system_coordinate_display(self) ==
    IF IsOld(self.system) THEN lib_coordinate_display(self)
    ELSE coordinate_display(self)

system_coordinate_from_str(s, text) ==
    IF IsOld(s) THEN lib_coordinate_from_str(s, text)
    ELSE coordinate_from_str(s, text)

\* interval.rs: Display for Interval
interval_display(self) ==
    contig_display(self.start.contig) \o <<":">> \o strand_display(self.start.strand)
        \o <<":">> \o number_position_display(self.start.position)
        \o <<"-">> \o number_position_display(self.end.position)

\* mutant: a text with a single position is read as the interval from it to the next
interval_from_str_single_position(s, text) ==
    LET parts == split(text, ":")
    IN  IF Len(parts) # 3 THEN Err("Format")
        ELSE LET contig == contig_try_new(parts[1])
                 strand == strand_try_new(parts[2])
                 positions == split(parts[3], "-")
             IN  IF contig.kind # "Ok" THEN Err("Format")
                 ELSE IF strand.kind # "Ok" THEN Err("Strand")
                 ELSE IF Len(positions) = 1
                 THEN LET start == number_position_from_str(s, positions[1])
                      IN  IF start.kind # "Ok" THEN Err("Position")
                          ELSE IF checked_add(Unwrap(start.val), 1) = None
                          THEN Err("Position")
                          ELSE interval_try_new(
                                   coordinate_new(s, Unwrap(contig.val), Unwrap(strand.val),
                                                  Unwrap(start.val)),
                                   coordinate_new(s, Unwrap(contig.val), Unwrap(strand.val),
                                                  Unwrap(checked_add(Unwrap(start.val), 1))))
                 ELSE IF Len(positions) # 2 THEN Err("Format")
                 ELSE LET start == number_position_from_str(s, positions[1])
                          end == number_position_from_str(s, positions[2])
                      IN  IF start.kind # "Ok" THEN Err("Position")
                          ELSE IF end.kind # "Ok" THEN Err("Position")
                          ELSE interval_try_new(
                                   coordinate_new(s, Unwrap(contig.val), Unwrap(strand.val),
                                                  Unwrap(start.val)),
                                   coordinate_new(s, Unwrap(contig.val), Unwrap(strand.val),
                                                  Unwrap(end.val)))

\* interval.rs: FromStr for Interval
interval_from_str(s, text) ==
    LET parts == split(text, ":")
    IN  IF Len(parts) # 3 THEN Err("Format")
        ELSE LET contig == contig_try_new(parts[1])
                 strand == strand_try_new(parts[2])
                 positions == split(parts[3], "-")
             IN  IF contig.kind # "Ok" THEN Err("Format")
                 ELSE IF strand.kind # "Ok" THEN Err("Strand")
                 ELSE IF Len(positions) # 2 THEN Err("Format")
                 ELSE LET start == number_position_from_str(s, positions[1])
                          end == number_position_from_str(s, positions[2])
                      IN  IF start.kind # "Ok" THEN Err("Position")
                          ELSE IF end.kind # "Ok" THEN Err("Position")
                          ELSE interval_try_new(
                                   coordinate_new(s, Unwrap(contig.val), Unwrap(strand.val),
                                                  Unwrap(start.val)),
                                   coordinate_new(s, Unwrap(contig.val), Unwrap(strand.val),
                                                  Unwrap(end.val)))

\* contig names of the text checks: any non-empty string is a contig
TextContigs == {<<"s">>, <<"c", "-", "1">>, <<"c", ":", "1">>}

\* every coordinate of the system on a contig of TextContigs
TextCoordinates(s) ==
    UNION {system_try_new(s, c, q, p).val :
             c \in TextContigs, q \in Strands, p \in ValidPositions(s)}

\* every interval of the Number revision on a contig of TextContigs
TextIntervals(s) ==
    UNION {interval_try_new(a, b).val : a, b \in TextCoordinates(s)}

\* texts no Display writes
MalformedTexts ==
    {<<>>, <<"s">>, <<"s", ":", "+", ":">>, <<":", "+", ":", "1">>,
     <<"s", ":", "*", ":", "1">>, <<"s", ":", "+", ":", "x">>,
     <<"s", ":", "+", ":", "1", "-">>, <<"s", ":", "+", ":", "1", "-", "2", "-", "3">>,
     <<"s", ":", "+", ":">> \o usize_to_string(UsizeMax + 1)}

\* the texts handed to FromStr: everything Display writes, and the malformed ones
ParseTexts ==
    {system_coordinate_display(c) : c \in UNION {TextCoordinates(s) : s \in Systems}}
        \cup {interval_display(i) : i \in UNION {TextIntervals(s) : s \in {"Interbase", "Base"}}}
        \cup MalformedTexts

-----------------------------------------------------------------------------
(* State: the coordinate and the interval the caller holds, the last call  *)
(* (operation and arguments) and what it returned.  A call that aborts the *)
(* process (a failed unwrap, unreachable!) leaves ret.kind = "Panic" and   *)
(* nothing runs after it.                                                  *)

NoCall ==
    [op |-> "none", sys |-> "", contig |-> "", strand |-> "", k |-> 0,
     vals |-> <<>>, pos |-> <<>>, coords |-> <<>>, ivals |-> <<>>]

NoRet == [kind |-> "None", err |-> "", val |-> {}]

DefaultCoordinate == Coordinate("Interbase", "seq0", "Positive", interbase_new(0))

DefaultInterval == Interval(DefaultCoordinate, DefaultCoordinate)

Running == ret.kind # "Panic"

\* the value a call leaves in the caller's hands: the returned one, else the old one
Keep(old, r) == IF r.kind = "Ok" /\ r.val # {} THEN Unwrap(r.val) ELSE old

(* ---- positions ---- *)

PositionTryNew ==
    /\ Running
    /\ UNCHANGED corpus
    /\ \E s \in Systems : \E v \in RawValues(s) :
         /\ call' = [NoCall EXCEPT !.op = "position_try_new", !.sys = s, !.vals = <<v>>]
         /\ ret' = position_try_new(s, v)
    /\ UNCHANGED <<coord, ival>>

CheckedAdd ==
    /\ Running
    /\ UNCHANGED corpus
    /\ \E p \in AllValidPositions, k \in Numbers :
         /\ call' = [NoCall EXCEPT !.op = "checked_add", !.sys = p.system,
                                   !.k = k, !.pos = <<p>>]
         /\ ret' = OkOpt(checked_add(p, k))
    /\ UNCHANGED <<coord, ival>>

CheckedSub ==
    /\ Running
    /\ UNCHANGED corpus
    /\ \E p \in AllValidPositions, k \in Numbers :
         /\ call' = [NoCall EXCEPT !.op = "checked_sub", !.sys = p.system,
                                   !.k = k, !.pos = <<p>>]
         /\ ret' = OkOpt(checked_sub(p, k))
    /\ UNCHANGED <<coord, ival>>

DistanceUnchecked ==
    /\ Running
    /\ UNCHANGED corpus
    /\ \E s \in {"Zero", "One"} : \E p, q \in ValidPositions(s) :
         /\ call' = [NoCall EXCEPT !.op = "distance_unchecked", !.sys = s,
                                   !.pos = <<p, q>>]
         /\ ret' = OkOpt(distance_unchecked(p, q))
    /\ UNCHANGED <<coord, ival>>

(* ---- coordinates ---- *)

CoordinateTryNew ==
    /\ Running
    /\ UNCHANGED corpus
    /\ \E s \in Systems, contig \in Contigs, strand \in Strands :
         \E p \in ValidPositions(s) :
           /\ call' = [NoCall EXCEPT !.op = "coordinate_try_new", !.sys = s,
                                     !.contig = contig, !.strand = strand,
                                     !.pos = <<p>>]
           /\ ret' = system_try_new(s, contig, strand, p)
           /\ coord' = Keep(coord, ret')
    /\ UNCHANGED ival

MoveForward ==
    /\ Running
    /\ UNCHANGED corpus
    /\ \E k \in Numbers :
         /\ call' = [NoCall EXCEPT !.op = "move_forward", !.sys = coord.system,
                                   !.k = k, !.coords = <<coord>>]
         /\ ret' = IF IsOld(coord.system) THEN lib_move_forward(coord, k)
                   ELSE OkOpt(coordinate_move_forward(coord, k))
         /\ coord' = Keep(coord, ret')
    /\ UNCHANGED ival

MoveBackward ==
    /\ Running
    /\ UNCHANGED corpus
    /\ \E k \in Numbers :
         /\ call' = [NoCall EXCEPT !.op = "move_backward", !.sys = coord.system,
                                   !.k = k, !.coords = <<coord>>]
         /\ ret' = IF IsOld(coord.system) THEN lib_move_backward(coord, k)
                   ELSE OkOpt(coordinate_move_backward(coord, k))
         /\ coord' = Keep(coord, ret')
    /\ UNCHANGED ival

SwapStrand ==
    /\ Running
    /\ UNCHANGED corpus
    /\ call' = [NoCall EXCEPT !.op = "swap_strand", !.sys = coord.system,
                              !.coords = <<coord>>]
    /\ ret' = IF IsOld(coord.system) THEN lib_swap_strand(coord)
              ELSE Ok(coordinate_swap_strand(coord))
    /\ coord' = Keep(coord, ret')
    /\ UNCHANGED ival

NudgeForward ==
    /\ Running
    /\ UNCHANGED corpus
    /\ ~IsOld(coord.system)
    /\ call' = [NoCall EXCEPT !.op = "nudge_forward", !.sys = coord.system,
                              !.coords = <<coord>>]
    /\ ret' = IF coord.system = "Interbase" THEN OkOpt(interbase_nudge_forward(coord))
              ELSE OkOpt(base_nudge_forward(coord))
    /\ coord' = Keep(coord, ret')
    /\ UNCHANGED ival

NudgeBackward ==
    /\ Running
    /\ UNCHANGED corpus
    /\ ~IsOld(coord.system)
    /\ call' = [NoCall EXCEPT !.op = "nudge_backward", !.sys = coord.system,
                              !.coords = <<coord>>]
    /\ ret' = IF coord.system = "Interbase" THEN OkOpt(interbase_nudge_backward(coord))
              ELSE OkOpt(base_nudge_backward(coord))
    /\ coord' = Keep(coord, ret')
    /\ UNCHANGED ival

(* ---- intervals ---- *)

IntervalTryNew ==
    /\ Running
    /\ UNCHANGED corpus
    /\ \E s \in Systems : \E a, b \in ValidCoordinates(s) :
         /\ call' = [NoCall EXCEPT !.op = "interval_try_new", !.sys = s,
                                   !.coords = <<a, b>>]
         /\ ret' = system_interval_try_new(a, b)
         /\ ival' = Keep(ival, ret')
    /\ UNCHANGED coord

Clamp ==
    /\ Running
    /\ UNCHANGED corpus
    /\ ~IsOld(ival.start.system)
    /\ \E j \in ValidIntervals :
         /\ j.start.system = ival.start.system
         /\ call' = [NoCall EXCEPT !.op = "clamp", !.sys = ival.start.system,
                                   !.ivals = <<ival, j>>]
         /\ ret' = interval_clamp(ival, j)
         /\ ival' = Keep(ival, ret')
    /\ UNCHANGED coord

ReverseComplement ==
    /\ Running
    /\ UNCHANGED corpus
    /\ ~IsOld(ival.start.system)
    /\ call' = [NoCall EXCEPT !.op = "reverse_complement", !.sys = ival.start.system,
                              !.ivals = <<ival>>]
    /\ ret' = interval_reverse_complement(ival)
    /\ ival' = Keep(ival, ret')
    /\ UNCHANGED coord

Complement ==
    /\ Running
    /\ UNCHANGED corpus
    /\ IsOld(ival.start.system)
    /\ call' = [NoCall EXCEPT !.op = "complement", !.sys = ival.start.system,
                              !.ivals = <<ival>>]
    /\ ret' = IF ival.start.system = "Zero" THEN zero_interval_complement(ival)
              ELSE one_interval_complement(ival)
    /\ ival' = Keep(ival, ret')
    /\ UNCHANGED coord

CoordinateAtOffset ==
    /\ Running
    /\ UNCHANGED corpus
    /\ ~IsOld(ival.start.system)
    /\ \E k \in Numbers :
         /\ call' = [NoCall EXCEPT !.op = "coordinate_at_offset",
                                   !.sys = ival.start.system, !.k = k,
                                   !.ivals = <<ival>>]
         /\ ret' = OkOpt(interval_coordinate_at_offset(ival, k))
         /\ coord' = Keep(coord, ret')
    /\ UNCHANGED ival

(* ---- queries and bounds-checked moves ---- *)

MoveForwardCheckedBounds ==
    /\ Running
    /\ UNCHANGED corpus
    /\ IsOld(coord.system)
    /\ ival.start.system = coord.system
    /\ \E k \in Numbers :
         /\ call' = [NoCall EXCEPT !.op = "move_forward_checked_bounds",
                                   !.sys = coord.system, !.k = k,
                                   !.coords = <<coord>>, !.ivals = <<ival>>]
         /\ ret' = lib_move_forward_checked_bounds(coord, k, ival)
         /\ coord' = Keep(coord, ret')
    /\ UNCHANGED ival

MoveBackwardCheckedBounds ==
    /\ Running
    /\ UNCHANGED corpus
    /\ IsOld(coord.system)
    /\ ival.start.system = coord.system
    /\ \E k \in Numbers :
         /\ call' = [NoCall EXCEPT !.op = "move_backward_checked_bounds",
                                   !.sys = coord.system, !.k = k,
                                   !.coords = <<coord>>, !.ivals = <<ival>>]
         /\ ret' = lib_move_backward_checked_bounds(coord, k, ival)
         /\ coord' = Keep(coord, ret')
    /\ UNCHANGED ival

\* interval/zero.rs, interval/one.rs: Interval::contains
Contains ==
    /\ Running
    /\ UNCHANGED corpus
    /\ IsOld(ival.start.system)
    /\ coord.system = ival.start.system
    /\ call' = [NoCall EXCEPT !.op = "contains", !.sys = ival.start.system,
                              !.coords = <<coord>>, !.ivals = <<ival>>]
    /\ ret' = Ok(lib_interval_contains(ival, coord))
    /\ UNCHANGED <<coord, ival>>

\* interval.rs: Interval::contains_coordinate
ContainsCoordinate ==
    /\ Running
    /\ UNCHANGED corpus
    /\ ~IsOld(ival.start.system)
    /\ coord.system = ival.start.system
    /\ call' = [NoCall EXCEPT !.op = "contains_coordinate", !.sys = ival.start.system,
                              !.coords = <<coord>>, !.ivals = <<ival>>]
    /\ ret' = Ok(interval_contains_coordinate(ival, coord))
    /\ UNCHANGED <<coord, ival>>

\* interval/interbase.rs, interval/base.rs: Interval::contains_entity
ContainsEntity ==
    /\ Running
    /\ UNCHANGED corpus
    /\ ~IsOld(ival.start.system)
    /\ \E u \in ValidCoordinates("Base") :
         /\ call' = [NoCall EXCEPT !.op = "contains_entity", !.sys = ival.start.system,
                                   !.coords = <<u>>, !.ivals = <<ival>>]
         /\ ret' = IF ival.start.system = "Interbase"
                   THEN Ok(interbase_contains_entity(ival, u))
                   ELSE Ok(base_contains_entity(ival, u))
    /\ UNCHANGED <<coord, ival>>

\* interval/interbase.rs, interval/base.rs: Interval::count_entities;
\* interval/zero.rs, interval/one.rs: Interval::len
CountEntities ==
    /\ Running
    /\ UNCHANGED corpus
    /\ call' = [NoCall EXCEPT !.op = "count_entities", !.sys = ival.start.system,
                              !.ivals = <<ival>>]
    /\ ret' \in CASE ival.start.system = "Zero" -> {zero_interval_len(ival)}
                  [] ival.start.system = "One" -> {one_interval_len(ival)}
                  [] ival.start.system = "Interbase" -> {interbase_count_entities(ival)}
                  [] OTHER -> base_count_entities(ival)
    /\ UNCHANGED <<coord, ival>>

\* interval.rs: Interval::coordinate_offset
CoordinateOffset ==
    /\ Running
    /\ UNCHANGED corpus
    /\ ~IsOld(ival.start.system)
    /\ coord.system = ival.start.system
    /\ call' = [NoCall EXCEPT !.op = "coordinate_offset", !.sys = ival.start.system,
                              !.coords = <<coord>>, !.ivals = <<ival>>]
    /\ ret' = OkOpt(interval_coordinate_offset(ival, coord))
    /\ UNCHANGED <<coord, ival>>

(* ---- text ---- *)

CoordinateDisplay ==
    /\ Running
    /\ UNCHANGED corpus
    /\ \E s \in Systems : \E c \in TextCoordinates(s) :
        /\ call' = [NoCall EXCEPT !.op = "coordinate_display", !.sys = s,
                                  !.coords = <<c>>]
        /\ ret' = Ok(system_coordinate_display(c))
    /\ UNCHANGED <<coord, ival>>

CoordinateFromStr ==
    /\ Running
    /\ UNCHANGED corpus
    /\ \E s \in Systems : \E text \in ParseTexts :
        /\ call' = [NoCall EXCEPT !.op = "coordinate_from_str", !.sys = s,
                                  !.vals = <<text>>]
        /\ ret' = system_coordinate_from_str(s, text)
    /\ UNCHANGED <<coord, ival>>

IntervalDisplay ==
    /\ Running
    /\ UNCHANGED corpus
    /\ \E s \in {"Interbase", "Base"} : \E i \in TextIntervals(s) :
        /\ call' = [NoCall EXCEPT !.op = "interval_display", !.sys = s,
                                  !.ivals = <<i>>]
        /\ ret' = Ok(interval_display(i))
    /\ UNCHANGED <<coord, ival>>

IntervalFromStr ==
    /\ Running
    /\ UNCHANGED corpus
    /\ \E s \in {"Interbase", "Base"} : \E text \in ParseTexts :
        /\ call' = [NoCall EXCEPT !.op = "interval_from_str", !.sys = s,
                                  !.vals = <<text>>]
        /\ ret' = interval_from_str(s, text)
    /\ UNCHANGED <<coord, ival>>

-----------------------------------------------------------------------------
(* The contig-name table: Corpus { hm: Arc<Mutex<HashMap<String, usize>>> }. *)
(* Threads call intern concurrently; a thread's steps are the statements   *)
(* of intern, and the mutex guard is held from lock() to the return.       *)

Threads == {"t1", "t2", "t3"}

NoThread == "none"

Idle == [pc |-> "idle", value |-> "", current |-> 0, id |-> None]

\* HashMap::get
hashmap_get(map, key) == IF key \in DOMAIN map THEN Some(map[key]) ELSE None

\* HashMap::len
hashmap_len(map) == Cardinality(DOMAIN map)

\* HashMap::insert
hashmap_insert(map, key, value) ==
    [k \in DOMAIN map \cup {key} |-> IF k = key THEN value ELSE map[k]]

\* mutant: the table is entered without waiting for the lock
mutex_lock_no_wait(t) == TRUE

\* Mutex::lock: blocks until no thread holds the guard
mutex_lock(t) == mutex = NoThread

\* no name is interned, no thread is in intern, nothing was returned
InitCorpus ==
    /\ hm = [k \in {} |-> 0]
    /\ mutex = NoThread
    /\ threads = [t \in Threads |-> Idle]
    /\ returned = {}

\* a thread calls intern(value)
Intern(t) ==
    /\ threads[t].pc = "idle"
    /\ \E value \in Contigs :
        threads' = [threads EXCEPT ![t] = [Idle EXCEPT !.pc = "lock", !.value = value]]
    /\ UNCHANGED <<hm, mutex, returned>>
    /\ UNCHANGED values

\* let mut hm = self.hm.lock().unwrap();
MutexLock(t) ==
    /\ threads[t].pc = "lock"
    /\ mutex_lock(t)
    /\ mutex' = t
    /\ threads' = [threads EXCEPT ![t].pc = "get"]
    /\ UNCHANGED <<hm, returned>>
    /\ UNCHANGED values

\* if let Some(entry) = hm.get(value) { return *entry; }
HashMapGet(t) ==
    /\ threads[t].pc = "get"
    /\ LET entry == hashmap_get(hm, threads[t].value)
       IN  threads' = IF entry # None
                      THEN [threads EXCEPT ![t].id = entry, ![t].pc = "return"]
                      ELSE [threads EXCEPT ![t].pc = "len"]
    /\ UNCHANGED <<hm, mutex, returned>>
    /\ UNCHANGED values

\* let current = hm.len();
HashMapLen(t) ==
    /\ threads[t].pc = "len"
    /\ threads' = [threads EXCEPT ![t].current = hashmap_len(hm), ![t].pc = "insert"]
    /\ UNCHANGED <<hm, mutex, returned>>
    /\ UNCHANGED values

\* hm.insert(value.to_owned(), current);
HashMapInsert(t) ==
    /\ threads[t].pc = "insert"
    /\ hm' = hashmap_insert(hm, threads[t].value, threads[t].current)
    /\ threads' = [threads EXCEPT ![t].id = Some(threads[t].current), ![t].pc = "return"]
    /\ UNCHANGED <<mutex, returned>>
    /\ UNCHANGED values

\* return: the guard is dropped and the caller holds the identifier
Return(t) ==
    /\ threads[t].pc = "return"
    /\ mutex' = NoThread
    /\ returned' = returned \cup {<<threads[t].value, Unwrap(threads[t].id)>>}
    /\ threads' = [threads EXCEPT ![t] = Idle]
    /\ UNCHANGED hm
    /\ UNCHANGED values

-----------------------------------------------------------------------------
(* Specifications *)

\* no call has been made yet
Fresh == call.op = "none"

\* constructors: one call of a constructor on arbitrary arguments
InitNew ==
    /\ coord = DefaultCoordinate
    /\ ival = DefaultInterval
    /\ call = NoCall
    /\ ret = NoRet
    /\ InitCorpus

NextNew ==
    \/ Fresh /\ PositionTryNew
    \/ Fresh /\ CoordinateTryNew
    \/ Fresh /\ IntervalTryNew

SpecNew == InitNew /\ [][NextNew]_vars

\* positions: checked arithmetic and distance on arbitrary valid positions
InitPos == InitNew

NextPos == CheckedAdd \/ CheckedSub \/ DistanceUnchecked

SpecPos == InitPos /\ [][NextPos]_vars

\* coordinates: movement starting at any valid coordinate
InitCoord ==
    /\ coord \in AllValidCoordinates
    /\ ival = DefaultInterval
    /\ call = NoCall
    /\ ret = NoRet
    /\ InitCorpus

NextCoord ==
    \/ MoveForward
    \/ MoveBackward
    \/ SwapStrand
    \/ NudgeForward
    \/ NudgeBackward

SpecCoord == InitCoord /\ [][NextCoord]_vars

\* intervals: the interval operations starting at any valid interval
InitIval ==
    /\ ival \in ValidIntervals
    /\ coord = ival.start
    /\ call = NoCall
    /\ ret = NoRet
    /\ InitCorpus

NextIval ==
    \/ Clamp
    \/ ReverseComplement
    \/ Complement
    \/ CoordinateAtOffset

SpecIval == InitIval /\ [][NextIval]_vars

\* every transformation, chained, starting at any valid interval and its start
Init == InitIval

Next ==
    \/ MoveForward
    \/ MoveBackward
    \/ SwapStrand
    \/ NudgeForward
    \/ NudgeBackward
    \/ Clamp
    \/ ReverseComplement
    \/ Complement
    \/ CoordinateAtOffset

Spec == Init /\ [][Next]_vars

\* queries: containment, length, offsets and bounds-checked moves on any valid
\* interval and any valid coordinate of its system
InitQuery ==
    /\ ival \in ValidIntervals
    /\ coord \in ValidCoordinates(ival.start.system)
    /\ call = NoCall
    /\ ret = NoRet
    /\ InitCorpus

NextQuery ==
    \/ MoveForwardCheckedBounds
    \/ MoveBackwardCheckedBounds
    \/ Contains
    \/ ContainsCoordinate
    \/ ContainsEntity
    \/ CountEntities
    \/ CoordinateOffset
    \/ CoordinateAtOffset





SpecQuery == InitQuery /\ [][NextQuery]_vars


\* text: one call that writes a value, or reads a written or malformed text
InitText == InitNew

NextText ==
    \/ Fresh /\ CoordinateDisplay
    \/ Fresh /\ CoordinateFromStr
    \/ Fresh /\ IntervalDisplay
    \/ Fresh /\ IntervalFromStr

SpecText == InitText /\ [][NextText]_vars

\* the table: threads call intern concurrently, in any interleaving of their steps
InitIntern == InitNew

NextIntern ==
    \/ \E t \in Threads : Intern(t)
    \/ \E t \in Threads : MutexLock(t)
    \/ \E t \in Threads : HashMapGet(t)
    \/ \E t \in Threads : HashMapLen(t)
    \/ \E t \in Threads : HashMapInsert(t)
    \/ \E t \in Threads : Return(t)

SpecIntern == InitIntern /\ [][NextIntern]_vars

-----------------------------------------------------------------------------
(* Vocabulary of the properties *)

\* the half-open systems and the fully-closed systems
ZeroBased == {"Zero", "Interbase"}

OneBased == {"One", "Base"}

\* the integer a position stands for, LowerBound standing for -1
Notional(p) ==
    IF IsOld(p.system)
    THEN IF p.inner.tag = "LowerBound" THEN -1 ELSE p.inner.n
    ELSE p.value

\* the position of a system that stands for an integer in -1..UsizeMax
FromNotional(s, v) ==
    IF IsOld(s)
    THEN OldPosition(s, IF v = -1 THEN LowerBound ELSE Usize(v))
    ELSE NewPosition(s, v)

IsLowerBound(p) == IsOld(p.system) /\ p.inner.tag = "LowerBound"

Abs(x) == IF x < 0 THEN -x ELSE x

\* the construction invariant of a position
PositionOK(p) ==
    /\ Notional(p) \in -1..UsizeMax
    /\ p.system \in OneBased => Notional(p) >= 1
    /\ p.system = "Interbase" => Notional(p) >= 0

\* the construction invariant of a coordinate
CoordinateOK(c) ==
    /\ c.position.system = c.system
    /\ PositionOK(c.position)
    /\ IsLowerBound(c.position) => c.strand = "Negative"

\* the construction invariant of an interval; the constructor of Zero rejects
\* equal bounds, the constructor of Interbase accepts them
IntervalOK(i) ==
    /\ CoordinateOK(i.start)
    /\ CoordinateOK(i.end)
    /\ i.start.system = i.end.system
    /\ i.start.contig = i.end.contig
    /\ i.start.strand = i.end.strand
    /\ i.start.strand = "Positive" => Notional(i.start.position) <= Notional(i.end.position)
    /\ i.start.strand = "Negative" => Notional(i.start.position) >= Notional(i.end.position)
    /\ i.start.system = "Zero" => i.start.position # i.end.position

CoordinateOps ==
    {"move_forward", "move_backward", "swap_strand", "nudge_forward",
     "nudge_backward", "coordinate_at_offset"}

IntervalOps == {"clamp", "reverse_complement", "complement"}

-----------------------------------------------------------------------------
(* C1 *)

\* C1: after any sequence of transformations every returned value satisfies
\* the construction invariants of its type, and a transformation that cannot
\* produce such a value returns None or an Error: it never aborts.
C1_TransformationsPreserveValidity ==
    /\ ret.kind # "Panic"
    /\ CoordinateOK(coord)
    /\ IntervalOK(ival)
    /\ call.op \in CoordinateOps => \A c \in ret.val : CoordinateOK(c)
    /\ call.op \in IntervalOps => \A i \in ret.val : IntervalOK(i)

(* C2 *)

\* C2: clamp of two valid intervals on the same contig and strand returns to
\* its caller, with a valid interval or with an Error, also when the two
\* intervals do not overlap.
C2_ClampReturns ==
    call.op = "clamp" =>
        /\ ret.kind \in {"Ok", "Err"}
        /\ \A i \in ret.val : IntervalOK(i)

(* C3 *)

\* C3: interval construction fails with mismatched contigs when the contigs
\* differ, with mismatched strands when the contigs match and the strands
\* differ, with negatively sized when the bounds are ordered against the
\* strand, and otherwise (the system's other rules met) succeeds and stores
\* start and end unchanged.
C3_IntervalConstruction ==
    call.op = "interval_try_new" =>
        LET a == call.coords[1]
            b == call.coords[2]
            va == Notional(a.position)
            vb == Notional(b.position)
            against == \/ a.strand = "Positive" /\ va > vb
                       \/ a.strand = "Negative" /\ va < vb
        IN  /\ a.contig # b.contig => ret = Err("MismatchedContigs")
            /\ a.contig = b.contig /\ a.strand # b.strand =>
                 ret = Err("MismatchedStrands")
            /\ a.contig = b.contig /\ a.strand = b.strand /\ against =>
                 ret = Err("NegativelySized")
            /\ a.contig = b.contig /\ a.strand = b.strand /\ ~against
                 /\ (call.sys = "Zero" => va # vb) =>
                 /\ ret = Ok(Interval(a, b))
                 /\ ival = Interval(a, b)

\* a negatively sized interval on the negative strand was rejected
C3_Witness ==
    /\ call.op = "interval_try_new"
    /\ call.coords[1].strand = "Negative"
    /\ call.coords[1].contig = call.coords[2].contig
    /\ ret = Err("NegativelySized")

(* C4 *)

\* C4 (as claimed): under every half-open system, constructing an interval
\* whose start.position equals its end.position fails.
C4_EqualBoundsFail ==
    call.op = "interval_try_new" /\ call.sys \in ZeroBased
        /\ Notional(call.coords[1].position) = Notional(call.coords[2].position)
    => ret.kind = "Err"

\* C4 (amended): under the Zero system constructing an interval whose
\* start.position equals its end.position fails, on either strand (zero sized
\* when contig and strand match), so no valid Zero interval has equal bounds;
\* under the Interbase system the same construction succeeds when contig and
\* strand match.
C4_ZeroEqualBoundsFail ==
    /\ call.op = "interval_try_new"
         /\ Notional(call.coords[1].position) = Notional(call.coords[2].position) =>
         LET a == call.coords[1]
             b == call.coords[2]
             same == a.contig = b.contig /\ a.strand = b.strand
         IN  /\ call.sys = "Zero" => ret.kind = "Err"
             /\ call.sys = "Zero" /\ same => ret = Err("ZeroSizedInterval")
             /\ call.sys = "Interbase" /\ same => ret = Ok(Interval(a, b))
    /\ \A i \in ValidIntervals :
         i.start.system = "Zero" => i.start.position # i.end.position

\* an empty Zero interval on the negative strand was rejected
C4_Witness ==
    /\ call.op = "interval_try_new"
    /\ call.sys = "Zero"
    /\ call.coords[1] = call.coords[2]
    /\ call.coords[1].strand = "Negative"
    /\ ret = Err("ZeroSizedInterval")

(* C5 *)

\* C5: position construction succeeds under a half-open system for LowerBound
\* and every number including 0; under a fully-closed system it fails with an
\* invalid-value error for LowerBound and for 0 and succeeds for every n >= 1.
C5_PositionConstruction ==
    call.op = "position_try_new" =>
        LET v == call.vals[1]
            bad == v = LowerBound \/ v = Usize(0)
        IN  /\ call.sys \in ZeroBased =>
                 /\ ret.kind = "Ok"
                 /\ \A p \in ret.val :
                      Notional(p) = (IF v = LowerBound THEN -1 ELSE v.n)
            /\ call.sys \in OneBased /\ bad => ret = Err("IncompatibleValue")
            /\ call.sys \in OneBased /\ ~bad =>
                 /\ ret.kind = "Ok"
                 /\ \A p \in ret.val : Notional(p) = v.n /\ p.system = call.sys

\* the one-based construction from 0 was rejected
C5_Witness ==
    /\ call.op = "position_try_new"
    /\ call.sys = "One"
    /\ call.vals[1] = Usize(0)
    /\ ret = Err("IncompatibleValue")

(* C6 *)

\* C6: coordinate construction from a valid contig, strand and position fails
\* exactly when the position is LowerBound and the strand is not Negative, and
\* otherwise succeeds and stores the three parts unchanged.
C6_CoordinateConstruction ==
    call.op = "coordinate_try_new" =>
        LET p == call.pos[1]
            lbpos == IsLowerBound(p) /\ call.strand # "Negative"
        IN  /\ ret.kind = "Err" <=> lbpos
            /\ ~lbpos =>
                 /\ ret = Ok(Coordinate(call.sys, call.contig, call.strand, p))
                 /\ coord = Coordinate(call.sys, call.contig, call.strand, p)

\* a LowerBound coordinate on the positive strand was rejected
C6_Witness ==
    /\ call.op = "coordinate_try_new"
    /\ IsLowerBound(call.pos[1])
    /\ call.strand = "Positive"
    /\ ret = Err("LowerBoundOnNonNegativeStrand")

(* C7 *)

C8_OneArithmetic ==
    call.op \in {"checked_add", "checked_sub"} /\ call.sys \in OneBased =>
        LET n == Notional(call.pos[1])
            r == IF call.op = "checked_add" THEN n + call.k ELSE n - call.k
        IN  /\ ret.val = IF r >= 1 /\ r <= UsizeMax
                         THEN Some(FromNotional(call.sys, r)) ELSE None
            /\ \A p \in ret.val : Notional(p) # 0

\* n - n under One returned None
C8_Witness ==
    /\ call.op = "checked_sub"
    /\ call.sys = "One"
    /\ call.k = call.pos[1].inner.n
    /\ ret.val = None

(* C9 *)

\* C9: distance_unchecked is symmetric and returns the absolute difference for
\* Number-Number, n + 1 for Number(n)-LowerBound (None when n is the integer
\* maximum) and 0 for LowerBound-LowerBound; a position is at distance 0 of
\* itself.
C9_Distance ==
    call.op = "distance_unchecked" =>
        LET p == call.pos[1]
            q == call.pos[2]
            d == Abs(Notional(p) - Notional(q))
        IN  /\ ret.val = IF d > UsizeMax THEN None ELSE Some(d)
            /\ ret.val = distance_unchecked(q, p)
            /\ p = q => ret.val = Some(0)

\* the distance of the maximum number to LowerBound overflowed
C9_Witness ==
    /\ call.op = "distance_unchecked"
    /\ call.pos[1] = zero_lower_bound
    /\ call.pos[2] = OldPosition("Zero", Usize(UsizeMax))
    /\ ret.val = None

(* C10 *)

\* C10: move_forward and move_backward never return an Error and never abort;
\* magnitude 0 returns the coordinate itself; otherwise forward is checked_add
\* on the positive strand and checked_sub on the negative strand (backward the
\* reverse) with contig and strand kept; the result is absent exactly when
\* the arithmetic yields None or a backward move on the positive strand would
\* land on LowerBound.
C10_Moves ==
    call.op \in {"move_forward", "move_backward"} =>
        LET c == call.coords[1]
            adds == (call.op = "move_forward") <=> (c.strand = "Positive")
            arith == IF adds THEN checked_add(c.position, call.k)
                     ELSE checked_sub(c.position, call.k)
            lands == call.op = "move_backward" /\ c.strand = "Positive"
                       /\ \E p \in arith : IsLowerBound(p)
        IN  /\ ret.kind = "Ok"
            /\ call.k = 0 => ret.val = Some(c)
            /\ call.k # 0 =>
                 /\ ret.val = None <=> (arith = None \/ lands)
                 /\ \A d \in ret.val :
                      d = Coordinate(c.system, c.contig, c.strand, Unwrap(arith))

\* a backward move on the positive strand that would land on LowerBound was absent
C10_Witness ==
    /\ call.op = "move_backward"
    /\ call.coords[1].strand = "Positive"
    /\ call.coords[1].position = OldPosition("Zero", Usize(0))
    /\ call.k = 1
    /\ ret = OkOpt(None)

(* C11 *)

\* C11: swap_strand returns the coordinate with the opposite strand and the
\* same contig and position; it fails exactly when the position is
\* LowerBound, which occurs only under the Zero system; every One, Base and
\* Interbase coordinate and every Zero coordinate with a number swaps.
C11_SwapStrand ==
    call.op = "swap_strand" =>
        LET c == call.coords[1]
        IN  /\ ret.kind \in {"Ok", "Err"}
            /\ ret.kind = "Err" <=> IsLowerBound(c.position)
            /\ ret.kind = "Err" => c.system = "Zero"
            /\ ret.kind = "Ok" =>
                 ret.val = Some(Coordinate(c.system, c.contig,
                                           IF c.strand = "Positive" THEN "Negative"
                                           ELSE "Positive",
                                           c.position))

\* a negative-strand coordinate at LowerBound was swapped, and the swap failed
C11_Witness ==
    /\ call.op = "swap_strand"
    /\ call.coords[1].strand = "Negative"
    /\ IsLowerBound(call.coords[1].position)
    /\ ret.kind = "Err"

(* C12 *)

\* C12: move_forward_checked_bounds and move_backward_checked_bounds return a
\* coordinate only when it is the result of the corresponding unbounded move
\* and the interval contains it; they return None when the move yields None
\* or the moved coordinate is not contained; a returned coordinate lies
\* between the bounds of the interval, on its contig and strand.
C12_CheckedBounds ==
    call.op \in {"move_forward_checked_bounds", "move_backward_checked_bounds"} =>
        LET c == call.coords[1]
            i == call.ivals[1]
            moved == IF call.op = "move_forward_checked_bounds"
                     THEN lib_move_forward(c, call.k)
                     ELSE lib_move_backward(c, call.k)
            lo == IF Notional(i.start.position) < Notional(i.end.position)
                  THEN Notional(i.start.position) ELSE Notional(i.end.position)
            hi == IF Notional(i.start.position) < Notional(i.end.position)
                  THEN Notional(i.end.position) ELSE Notional(i.start.position)
        IN  /\ ret.kind = "Ok"
            /\ \A d \in ret.val :
                 /\ d \in moved.val
                 /\ lib_interval_contains(i, d)
                 /\ d.contig = i.start.contig
                 /\ d.strand = i.start.strand
                 /\ Notional(d.position) \in lo..hi
            /\ ret.val = None <=>
                 \/ moved.val = None
                 \/ \E d \in moved.val : ~lib_interval_contains(i, d)

\* a move that succeeds unbounded left the interval and was reported as None
C12_Witness ==
    /\ call.op = "move_forward_checked_bounds"
    /\ lib_move_forward(call.coords[1], call.k).val # None
    /\ lib_interval_contains(call.ivals[1], call.coords[1])
    /\ call.k > 0
    /\ ret = OkOpt(None)

(* C13 *)

\* the coordinate lies on the interval's contig and strand, between its bounds
\* along the strand; each bound counts when its flag is set
Between(i, c, with_start, with_end) ==
    LET s == Notional(i.start.position)
        e == Notional(i.end.position)
        v == Notional(c.position)
    IN  /\ c.contig = i.start.contig
        /\ c.strand = i.start.strand
        /\ IF i.start.strand = "Positive"
           THEN (IF with_start THEN s <= v ELSE s < v)
                  /\ (IF with_end THEN v <= e ELSE v < e)
           ELSE (IF with_start THEN s >= v ELSE s > v)
                  /\ (IF with_end THEN v >= e ELSE v > e)

\* C13: for Interbase and Base, contains_coordinate(c) is true exactly when c
\* has the interval's contig and strand and lies between start and end, both
\* included, along the strand; every valid interval contains its own start
\* and its own end.
C13_ContainsCoordinate ==
    call.op = "contains_coordinate" =>
        LET i == call.ivals[1]
            c == call.coords[1]
        IN  /\ ret = Ok(Between(i, c, TRUE, TRUE))
            /\ c \in {i.start, i.end} => ret = Ok(TRUE)

\* an interbase interval with distinct bounds was asked for its own end
C13_Witness ==
    /\ call.op = "contains_coordinate"
    /\ call.sys = "Interbase"
    /\ call.ivals[1].start # call.ivals[1].end
    /\ call.coords[1] = call.ivals[1].end
    /\ ret = Ok(TRUE)

(* C14 *)

\* C14 as stated: for every half-open system (Zero and Interbase) the
\* coordinate containment test includes the start and excludes the end, on
\* both strands.
C14_EndExcluded ==
    (call.op \in {"contains", "contains_coordinate"} /\ call.sys \in ZeroBased) =>
        LET i == call.ivals[1]
            c == call.coords[1]
        IN  /\ c = i.end => ret = Ok(FALSE)
            /\ (c = i.start /\ i.start # i.end) => ret = Ok(TRUE)

\* C14 amended: contains of a Zero interval (interval/zero.rs) is true exactly
\* for the coordinates on its contig and strand from the start, included, to
\* the end, excluded, along the strand, so it never contains its own end;
\* contains_coordinate of an Interbase interval (interval.rs) contains the
\* end as well.
C14_ZeroEndExcluded ==
    /\ (call.op = "contains" /\ call.sys = "Zero") =>
         LET i == call.ivals[1]
             c == call.coords[1]
         IN  /\ ret = Ok(Between(i, c, TRUE, FALSE))
             /\ c = i.end => ret = Ok(FALSE)
             /\ c = i.start => ret = Ok(TRUE)
    /\ (call.op = "contains_coordinate" /\ call.sys = "Interbase") =>
         (call.coords[1] = call.ivals[1].end => ret = Ok(TRUE))

\* a negative-strand Zero interval ending at 0 was asked for its end, and a
\* positive-strand one is asked for the coordinate just before its end
C14_Witness ==
    /\ call.op = "contains"
    /\ call.sys = "Zero"
    /\ call.ivals[1].start.strand = "Negative"
    /\ call.ivals[1].end.position = OldPosition("Zero", Usize(0))
    /\ call.coords[1] = call.ivals[1].end
    /\ ret = Ok(FALSE)

(* C15 *)

\* C15: contains_entity(u), u a base coordinate, is false when u's contig or
\* strand differs from the interval's; for a Base interval it equals
\* contains_coordinate(u); for an Interbase interval it is true exactly when
\* start < u <= end on the positive strand and start >= u > end on the
\* negative strand.
C15_ContainsEntity ==
    call.op = "contains_entity" =>
        LET i == call.ivals[1]
            u == call.coords[1]
        IN  /\ (u.contig # i.start.contig \/ u.strand # i.start.strand) => ret = Ok(FALSE)
            /\ call.sys = "Base" =>
                 /\ ret = Ok(interval_contains_coordinate(i, u))
                 /\ ret = Ok(Between(i, u, TRUE, TRUE))
            /\ call.sys = "Interbase" =>
                 ret = Ok(IF i.start.strand = "Positive"
                          THEN Between(i, u, FALSE, TRUE)
                          ELSE Between(i, u, TRUE, FALSE))

\* a positive-strand interbase interval was asked for the entity numbered as
\* its start: it lies before the interval
C15_Witness ==
    /\ call.op = "contains_entity"
    /\ call.sys = "Interbase"
    /\ call.ivals[1].start.strand = "Positive"
    /\ call.ivals[1].start # call.ivals[1].end
    /\ call.coords[1].contig = call.ivals[1].start.contig
    /\ call.coords[1].strand = "Positive"
    /\ call.coords[1].position.value = call.ivals[1].start.position.value
    /\ ret = Ok(FALSE)

(* C16 *)

\* C16: for every valid interval of a half-open system (Zero, Interbase), on
\* either strand, with bounds up to the maximum and a LowerBound end counted
\* as -1, count_entities (len) returns |end - start|.
C16_HalfOpenLength ==
    (call.op = "count_entities" /\ call.sys \in ZeroBased) =>
        LET i == call.ivals[1]
        IN  ret = Ok(Abs(Notional(i.end.position) - Notional(i.start.position)))

(* C17 *)

\* C17: for every valid interval of a fully-closed system (One, Base), on
\* either strand, including start = end and the bounds 1 and the maximum,
\* count_entities (len) returns |end - start| + 1.
C17_ClosedLength ==
    (call.op = "count_entities" /\ call.sys \in OneBased) =>
        LET i == call.ivals[1]
        IN  ret = Ok(Abs(Notional(i.end.position) - Notional(i.start.position)) + 1)

\* the length of the One interval from 1 to the maximum was taken
C17_Witness ==
    /\ call.op = "count_entities"
    /\ call.sys = "One"
    /\ call.ivals[1].start.position = OldPosition("One", Usize(1))
    /\ call.ivals[1].end.position = OldPosition("One", Usize(UsizeMax))
    /\ ret = Ok(UsizeMax)

(* C18 *)

\* the larger and the smaller of two integers
Max(a, b) == IF a > b THEN a ELSE b

Min(a, b) == IF a < b THEN a ELSE b

\* C18: for intervals A and B on the same contig and strand, A.clamp(B) is
\* the interval with start = max(A.start, B.start) and end = min(A.end, B.end)
\* on the positive strand (min and max on the negative strand); it lies
\* within A's bounds; A.clamp(A) = A, and A.clamp(B) = A when B contains A.
C18_ClampAlgebra ==
    (/\ call.op = "clamp"
     /\ call.ivals[1].start.contig = call.ivals[2].start.contig
     /\ call.ivals[1].start.strand = call.ivals[2].start.strand) =>
        LET A == call.ivals[1]
            B == call.ivals[2]
            s == A.start.system
            as == Notional(A.start.position)
            ae == Notional(A.end.position)
            bs == Notional(B.start.position)
            be == Notional(B.end.position)
            positive == A.start.strand = "Positive"
            start == IF positive THEN Max(as, bs) ELSE Min(as, bs)
            end == IF positive THEN Min(ae, be) ELSE Max(ae, be)
            expected ==
                Interval(Coordinate(s, A.start.contig, A.start.strand, FromNotional(s, start)),
                         Coordinate(s, A.start.contig, A.start.strand, FromNotional(s, end)))
        IN  /\ ret = Ok(expected)
            /\ interval_contains_coordinate(A, expected.start)
            /\ interval_contains_coordinate(A, expected.end)
            /\ B = A => ret = Ok(A)
            /\ (interval_contains_coordinate(B, A.start)
                  /\ interval_contains_coordinate(B, A.end)) => ret = Ok(A)

(* C19 *)

\* C19: clamp of two valid intervals returns the clamp mismatched-contig error
\* when their contigs differ and the clamp mismatched-strand error when the
\* contigs match and the strands differ; neither is a construction-time
\* mismatch error, and no interval is returned.
C19_ClampErrors ==
    call.op = "clamp" =>
        LET A == call.ivals[1]
            B == call.ivals[2]
        IN  /\ A.start.contig # B.start.contig =>
                 /\ ret = Err("ClampMismatchedContigs")
                 /\ ret.val = None
            /\ (A.start.contig = B.start.contig /\ A.start.strand # B.start.strand) =>
                 /\ ret = Err("ClampMismatchedStrand")
                 /\ ret.val = None
            /\ ret.kind = "Err" =>
                 /\ ret.err \notin {"MismatchedContigs", "MismatchedStrands", "NegativelySized"}
                 /\ (A.start.contig # B.start.contig \/ A.start.strand # B.start.strand)

\* two intervals that differ in contig and in strand were clamped
C19_Witness ==
    /\ call.op = "clamp"
    /\ call.ivals[1].start.contig # call.ivals[2].start.contig
    /\ call.ivals[1].start.strand # call.ivals[2].start.strand
    /\ ret = Err("ClampMismatchedContigs")

(* C20 *)

\* C20: coordinate_offset(c) is None exactly when the interval does not
\* contain c; otherwise it is the unsigned distance between start and c, 0
\* for c = start, counted forward along the strand (c - start on the
\* positive strand, start - c on the negative strand).
C20_CoordinateOffset ==
    call.op = "coordinate_offset" =>
        LET i == call.ivals[1]
            c == call.coords[1]
            s == Notional(i.start.position)
            v == Notional(c.position)
        IN  /\ ret.kind = "Ok"
            /\ ret.val = None <=> ~Between(i, c, TRUE, TRUE)
            /\ ret.val = None <=> ~interval_contains_coordinate(i, c)
            /\ \A d \in ret.val :
                 /\ d = Abs(v - s)
                 /\ d = IF i.start.strand = "Positive" THEN v - s ELSE s - v
                 /\ c = i.start => d = 0

\* the offset of the end of a negative-strand interval with distinct bounds
C20_Witness ==
    /\ call.op = "coordinate_offset"
    /\ call.ivals[1].start.strand = "Negative"
    /\ call.ivals[1].start # call.ivals[1].end
    /\ call.coords[1] = call.ivals[1].end
    /\ ret.val = Some(call.ivals[1].start.position.value - call.ivals[1].end.position.value)

(* C21 *)

\* C21: coordinate_at_offset(k) returns the coordinate k steps forward of the
\* interval's start along the strand when that coordinate exists and the
\* interval contains it, and None otherwise (overflow, or past the end); a
\* returned coordinate is never outside the interval.
C21_CoordinateAtOffset ==
    call.op = "coordinate_at_offset" =>
        LET i == call.ivals[1]
            s == Notional(i.start.position)
            e == Notional(i.end.position)
            t == IF i.start.strand = "Positive" THEN s + call.k ELSE s - call.k
            inside == IF i.start.strand = "Positive" THEN t <= e ELSE t >= e
        IN  /\ ret.kind = "Ok"
            /\ ret.val = IF inside
                         THEN Some(Coordinate(i.start.system, i.start.contig,
                                              i.start.strand,
                                              FromNotional(i.start.system, t)))
                         ELSE None
            /\ \A d \in ret.val : Between(i, d, TRUE, TRUE) /\ CoordinateOK(d)

\* the start moved forward exists but lies past the end: None was returned
C21_Witness ==
    /\ call.op = "coordinate_at_offset"
    /\ call.k > 0
    /\ coordinate_move_forward(call.ivals[1].start, call.k) # None
    /\ ret = OkOpt(None)

(* C22 *)

\* the coordinate on the opposite strand
Flip(c) ==
    Coordinate(c.system, c.contig,
               IF c.strand = "Positive" THEN "Negative" ELSE "Positive", c.position)

\* C22: reverse_complement of a valid interval (Interbase, Base; complement
\* for One) returns the interval whose start is the old end on the opposite
\* strand and whose end is the old start on the opposite strand; applied
\* twice it returns the original interval.
C22_ReverseComplement ==
    (call.op = "reverse_complement" \/ (call.op = "complement" /\ call.sys = "One")) =>
        LET I == call.ivals[1]
            J == Interval(Flip(I.end), Flip(I.start))
        IN  /\ ret = Ok(J)
            /\ IntervalOK(J)
            /\ call.op = "reverse_complement" => interval_reverse_complement(J) = Ok(I)
            /\ call.op = "complement" => one_interval_complement(J) = Ok(I)

\* a base interval with distinct bounds was reverse complemented
C22_Witness ==
    /\ call.op = "reverse_complement"
    /\ call.sys = "Base"
    /\ call.ivals[1].start # call.ivals[1].end
    /\ ret.kind = "Ok"
    /\ Unwrap(ret.val).start = Flip(call.ivals[1].end)

(* C23 *)

\* C23: for every valid Zero interval complement never returns an Error: it
\* returns Ok(Some(J)) where J's end is the old start strand-swapped and moved
\* forward by 1 and J's start is the old end strand-swapped and moved forward
\* by 1, J's start being 0 on the positive strand when the old end is
\* LowerBound; it returns Ok(None) when the move of either endpoint overflows.
C23_ZeroComplement ==
    (call.op = "complement" /\ call.sys = "Zero") =>
        LET I == call.ivals[1]
            step == IF I.start.strand = "Positive" THEN -1 ELSE 1
            strand == IF I.start.strand = "Positive" THEN "Negative" ELSE "Positive"
            ns == IF IsLowerBound(I.end.position) THEN 0
                  ELSE Notional(I.end.position) + step
            ne == Notional(I.start.position) + step
            overflows == ns > UsizeMax \/ ne > UsizeMax
            J == Interval(Coordinate("Zero", I.start.contig, strand, FromNotional("Zero", ns)),
                          Coordinate("Zero", I.start.contig, strand, FromNotional("Zero", ne)))
        IN  /\ ret.kind = "Ok"
            /\ ret.val = IF overflows THEN None ELSE Some(J)
            /\ \A K \in ret.val :
                 /\ IntervalOK(K)
                 /\ K.end \in lib_move_forward(Flip(I.start), 1).val
                 /\ ~IsLowerBound(I.end.position) =>
                      K.start \in lib_move_forward(Flip(I.end), 1).val
                 /\ IsLowerBound(I.end.position) =>
                      K.start = Coordinate("Zero", I.start.contig, "Positive",
                                           OldPosition("Zero", Usize(0)))

\* a negative-strand interval ending at LowerBound was complemented
C23_Witness ==
    /\ call.op = "complement"
    /\ call.sys = "Zero"
    /\ IsLowerBound(call.ivals[1].end.position)
    /\ ret.kind = "Ok"
    /\ ret.val # None
    /\ Unwrap(ret.val).start.position = OldPosition("Zero", Usize(0))


\* C24: reading the text Display wrote for a valid coordinate or a valid
\* interval gives back that coordinate or interval, whatever the (non-empty)
\* contig name, the strand and the position.
C24_RoundTrip ==
    /\ call.op = "coordinate_from_str" =>
         \A c \in TextCoordinates(call.sys) :
             system_coordinate_display(c) = call.vals[1] => ret = Ok(c)
    /\ call.op = "interval_from_str" =>
         \A i \in TextIntervals(call.sys) :
             interval_display(i) = call.vals[1] => ret = Ok(i)

\* the text "<contig>:<strand>:<n>" of a coordinate of the system being read
SinglePositionOf(c) ==
    /\ call.op = "interval_from_str"
    /\ c \in TextCoordinates(call.sys)
    /\ call.vals[1] = coordinate_display(c)

\* C25 as stated: reading "<contig>:<strand>:<n>" as an interval of the
\* half-open system succeeds and gives the interval from n to n + 1.
C25_SinglePosition ==
    \A c \in TextCoordinates("Interbase") :
        SinglePositionOf(c) /\ call.sys = "Interbase" /\ c.position.value < UsizeMax =>
            ret = Ok(Interval(c, [c EXCEPT !.position.value = @ + 1]))

\* C25 amended: reading "<contig>:<strand>:<n>" as an interval fails with the
\* format error in either system of the Number revision; no interval is made.
C25_SinglePositionRejected ==
    \A s \in {"Interbase", "Base"} : \A c \in TextCoordinates(s) :
        SinglePositionOf(c) /\ call.sys = s => ret = Err("Format")

\* "s:+:0" read as an Interbase interval is a format error
C25_Witness ==
    /\ call.op = "interval_from_str"
    /\ call.sys = "Interbase"
    /\ call.vals[1] = <<"s", ":", "+", ":", "0">>
    /\ ret = Err("Format")


\* the in-base coordinate next to the interbase coordinate c in the direction of
\* its strand, if there is one
NextBase(c) ==
    IF c.strand = "Positive"
    THEN IF c.position.value + 1 > UsizeMax THEN None
         ELSE Some([c EXCEPT !.system = "Base", !.position.system = "Base",
                             !.position.value = @ + 1])
    ELSE IF c.position.value = 0 THEN None
         ELSE Some([c EXCEPT !.system = "Base", !.position.system = "Base"])

\* after nudge_forward on an interbase coordinate
C26_Forward ==
    call.op = "nudge_forward" /\ call.sys = "Interbase" =>
        ret = OkOpt(NextBase(call.coords[1]))

\* nudge_backward called on the coordinate that nudge_forward just returned
C26_Back ==
    /\ call.op = "nudge_forward"
    /\ call.sys = "Interbase"
    /\ ret.val # {}
    /\ call'.op = "nudge_backward"
    /\ call'.coords[1] = Unwrap(ret.val)
    => ret' = Ok(call.coords[1])

\* C26: an interbase coordinate at p nudged forward gives the in-base coordinate
\* p + 1 on the positive strand and p on the negative strand, on the same contig
\* and strand, and nothing when p + 1 overflows or p is 0 on the negative
\* strand; nudging that in-base coordinate backward gives the interbase
\* coordinate back.
C26_Nudges == [][C26_Forward' /\ C26_Back]_vars

\* an in-base coordinate on the negative strand, obtained by nudging forward, is
\* nudged backward
C26_Witness ==
    /\ call.op = "nudge_backward"
    /\ call.sys = "Base"
    /\ call.coords[1].strand = "Negative"
    /\ ret.val # {}
    /\ coord.system = "Interbase"
    /\ coord.position.value = call.coords[1].position.value


\* C27: in every interleaving of concurrent intern calls, two calls with equal
\* names return equal identifiers, two calls with different names return
\* different identifiers, and the identifier returned for a name is the one
\* every later call returns for it.
C27_Intern ==
    \A a, b \in returned : (a[1] = b[1]) <=> (a[2] = b[2])

\* both names have been interned, one thread is about to return the identifier
\* it found for a name, and another waits for the lock with the same name
C27_Witness ==
    /\ Cardinality(returned) = 2
    /\ \E t, u \in Threads :
        /\ t # u
        /\ threads[t].pc = "return"
        /\ threads[u].pc = "lock"
        /\ threads[u].value = threads[t].value


\* the in-base coordinates the interval i reports as contained entities
EntitiesOf(i) ==
    {u \in ValidCoordinates("Base") :
        /\ u.contig = i.start.contig
        /\ u.strand = i.start.strand
        /\ IF i.start.system = "Interbase" THEN interbase_contains_entity(i, u)
           ELSE base_contains_entity(i, u)}

\* C28: count_entities of a valid Interbase or Base interval is the number of
\* in-base coordinates on the interval's contig and strand for which
\* contains_entity is true.
C28_CountMatchesContains ==
    call.op = "count_entities" /\ call.sys \in {"Interbase", "Base"} =>
        ret = Ok(Cardinality(EntitiesOf(call.ivals[1])))

\* a negative-strand Interbase interval holding two entities is counted
C28_Witness ==
    /\ call.op = "count_entities"
    /\ call.sys = "Interbase"
    /\ call.ivals[1].start.strand = "Negative"
    /\ Cardinality(EntitiesOf(call.ivals[1])) = 2
    /\ ret = Ok(2)


\* the move `back` is called with the same magnitude on the coordinate the move
\* `there` has just returned
MovedThereAndBack(there, back) ==
    /\ call.op = there
    /\ ret.kind = "Ok"
    /\ ret.val # {}
    /\ call'.op = back
    /\ call'.k = call.k
    /\ call'.coords[1] = Unwrap(ret.val)

\* C29: in every system and on both strands, when move_forward(k) of a valid
\* coordinate c returns a coordinate d, move_backward(k) of d returns c, and
\* when move_backward(k) of c returns d, move_forward(k) of d returns c; this
\* includes the moves that land on LowerBound or leave it.
C29_MovesInverse ==
    [][/\ MovedThereAndBack("move_forward", "move_backward") => ret' = Ok(call.coords[1])
       /\ MovedThereAndBack("move_backward", "move_forward") => ret' = Ok(call.coords[1])]_vars

\* a Zero coordinate at LowerBound is moved backward by k > 0 and leaves it for
\* the position k - 1
C29_Witness ==
    /\ call.op = "move_backward"
    /\ call.sys = "Zero"
    /\ call.k > 0
    /\ call.coords[1].position.inner = LowerBound
    /\ ret = Ok(coord)
    /\ coord.position.inner = Usize(call.k - 1)


\* coordinate_at_offset is called on the same interval with the offset that
\* coordinate_offset has just returned
OffsetThenAtOffset ==
    /\ call.op = "coordinate_offset"
    /\ ret.val # {}
    /\ call'.op = "coordinate_at_offset"
    /\ call'.ivals = call.ivals
    /\ call'.k = Unwrap(ret.val)

\* coordinate_offset is called on the same interval with the coordinate that
\* coordinate_at_offset has just returned
AtOffsetThenOffset ==
    /\ call.op = "coordinate_at_offset"
    /\ ret.val # {}
    /\ call'.op = "coordinate_offset"
    /\ call'.ivals = call.ivals
    /\ call'.coords[1] = Unwrap(ret.val)

\* C30: on a valid interval I, coordinate_at_offset of the offset of a contained
\* coordinate c is c, and the offset of the coordinate that coordinate_at_offset
\* returns for k is k.
C30_OffsetsInverse ==
    [][/\ OffsetThenAtOffset => ret' = Ok(call.coords[1])
       /\ AtOffsetThenOffset => ret' = Ok(call.k)]_vars

\* the offset of the coordinate found two steps into a negative-strand interval
C30_Witness ==
    /\ call.op = "coordinate_offset"
    /\ call.ivals[1].start.strand = "Negative"
    /\ call.coords[1] # call.ivals[1].start
    /\ ret = Ok(2)

====
